---- MODULE Spec2Model ----
(***************************************************************************)
(* Model of src/model/fast_r2d2_downstream.py: the forward passes of       *)
(* FastR2D2Classification and FastR2D2CrossSentence.                       *)
(*                                                                         *)
(* A tensor is a record [shape, data]: data is the contiguous row-major    *)
(* storage, so view() keeps data and replaces shape, and indexing is the   *)
(* usual stride arithmetic.  The collaborators that are not part of the    *)
(* file (encoder, parser, force_encode, tensor cache, classifier layers,   *)
(* cross_entropy, softmax) are stubs: each call is appended to trace with  *)
(* its arguments and its result, and the result is a tagged value from     *)
(* which the formulas can tell where it came from.                         *)
(***************************************************************************)
EXTENDS Integers, Sequences, FiniteSets, TLC

VARIABLES class, disable_parser, task_id,
          r2d2_ids, r2d2_loss, parser_kl, cross_entropy_returns,
          args, trace, raised, returned

vars == <<class, disable_parser, task_id,
          r2d2_ids, r2d2_loss, parser_kl, cross_entropy_returns,
          args, trace, raised, returned>>

(* ------------------------------ bounds -------------------------------- *)
MaxBatch == 2
MaxLen == 2
MaxSamples == 1
MaxCacheId == 1
MaxLoss == 1
MaxTaskId == 2
HiddenSize == 2
LabelNum == 2

MaxRows == 2 * MaxBatch
CacheIds == 0..MaxCacheId
Loss == 0..MaxLoss

(* ----------------------- python values, tensors ----------------------- *)
\* None is the empty tuple, a present value x is <<x>>.
None == << >>
Some(x) == <<x>>

RECURSIVE Numel(_)
Numel(shape) == IF shape = << >> THEN 1 ELSE Head(shape) * Numel(Tail(shape))

Tensor(shape, data) == [shape |-> shape, data |-> data]

\* t[i, j] of a 2-d tensor and t[i, j, k] of a 3-d tensor (0-based, row-major strides)
At2(t, i, j) == t.data[i * t.shape[2] + j + 1]
At3(t, i, j, k) == t.data[(i * t.shape[2] + j) * t.shape[3] + k + 1]
\* t[i] of a 2-d tensor, t[i, j] of a 3-d tensor: one row of the last dimension
Row2(t, i) == [k \in 1..t.shape[2] |-> At2(t, i, k - 1)]
Row3(t, i, j) == [k \in 1..t.shape[3] |-> At3(t, i, j, k - 1)]

\* t.view(*shape): same storage, new shape; legal only if the sizes agree
ViewOk(t, shape) == Numel(shape) = Numel(t.shape)
View(t, shape) == Tensor(shape, t.data)

\* torch.cat([a, b], dim=1) of 3-d tensors a: (P, A, D) and b: (P, B, D)
Cat1(a, b) ==
    LET P == a.shape[1]
        A == a.shape[2]
        B == b.shape[2]
        D == a.shape[3]
    IN Tensor(<<P, A + B, D>>,
              [n \in 1..(P * (A + B) * D) |->
                  LET p == (n - 1) \div ((A + B) * D)
                      j == ((n - 1) % ((A + B) * D)) \div D
                      k == (n - 1) % D
                  IN IF j < A THEN At3(a, p, j, k) ELSE At3(b, p, j - A, k)])

\* t.unsqueeze(1) of a 2-d tensor
Unsqueeze1(t) == Tensor(<<t.shape[1], 1, t.shape[2]>>, t.data)

\* t[:, j, :] of a 3-d tensor
Select1(t, j) ==
    Tensor(<<t.shape[1], t.shape[3]>>,
           [n \in 1..(t.shape[1] * t.shape[3]) |->
               At3(t, (n - 1) \div t.shape[3], j, (n - 1) % t.shape[3])])

\* torch.zeros([sz], dtype=long).fill_(v)
Filled(sz, v) == Tensor(<<sz>>, [n \in 1..sz |-> v])

(* --------------------------- collaborators ---------------------------- *)
\* Number of calls of fn made so far by the running forward
Calls(tr, fn) == Cardinality({i \in DOMAIN tr : tr[i].fn = fn})

\* CacheSlots of r2d2_common: the slots a tensor cache keeps per cache id
CacheSlots == {"E_IJ", "LOG_P_IJ_SUM"}
SlotBase(slot) == IF slot = "E_IJ" THEN 1000 ELSE 5000

\* The tensor cache an encoder call returns: cache id -> slot -> vector
TensorCache == [c \in CacheIds |-> [s \in CacheSlots |->
                   [k \in 1..HiddenSize |-> SlotBase(s) + c * HiddenSize + (k - 1)]]]

\* tensor_cache.gather(ids, slots): one tensor per slot, stacked over ids in the order given
TensorCacheGather(cache, ids, slots) ==
    [fn |-> "gather", cache |-> cache, ids |-> ids, slots |-> slots,
     result |-> [s \in 1..Len(slots) |->
                    Tensor(<<Len(ids), HiddenSize>>,
                           [n \in 1..(Len(ids) * HiddenSize) |->
                               cache[ids[((n - 1) \div HiddenSize) + 1]][slots[s]][((n - 1) % HiddenSize) + 1]])]]

\* self.parser(...): without split information it returns merge guidance,
\* with split_masks/split_points it returns the KL loss
TopdownParser(input_ids, attention_mask, atom_spans, split_masks, split_points) ==
    [fn |-> "parser", input_ids |-> input_ids, attention_mask |-> attention_mask,
     atom_spans |-> atom_spans, split_masks |-> split_masks, split_points |-> split_points,
     result |-> IF split_masks = None /\ split_points = None
                THEN [merge_trajectories_of |-> input_ids, atom_spans |-> atom_spans]
                ELSE parser_kl]

\* self.r2d2(...): one table per row of input_ids; table r has the cache id r2d2_ids[r]
R2D2Cuda(input_ids, attention_mask, merge_trajectories, sample_trees, recover_tree, keep_tensor_cache, lm_loss) ==
    [fn |-> "r2d2", input_ids |-> input_ids, attention_mask |-> attention_mask,
     merge_trajectories |-> merge_trajectories, sample_trees |-> sample_trees,
     recover_tree |-> recover_tree, keep_tensor_cache |-> keep_tensor_cache,
     lm_loss |-> lm_loss,
     result |-> [tables |-> [r \in 1..input_ids.shape[1] |->
                                [root |-> [best_node |-> [cache_id |-> r2d2_ids[r]]]]],
                 tensor_cache |-> TensorCache,
                 loss |-> IF lm_loss = Some(FALSE) THEN 0 ELSE r2d2_loss,
                 sampled_trees |-> [split_masks |-> [split_masks_of |-> input_ids,
                                                     sample_trees |-> sample_trees],
                                    split_points |-> [split_points_of |-> input_ids,
                                                      sample_trees |-> sample_trees]]]]

\* The vector force_encode pools for one sentence (a row of token ids)
SentenceVector(row) == [k \in 1..HiddenSize |-> 2000 + row[1] * HiddenSize + (k - 1)]

\* force_encode(parser, r2d2, input_ids, attention_mask, atom_spans): one vector per row
force_encode(parser, r2d2, input_ids, attention_mask, atom_spans) ==
    [fn |-> "force_encode", parser |-> parser, r2d2 |-> r2d2,
     input_ids |-> input_ids, attention_mask |-> attention_mask, atom_spans |-> atom_spans,
     result |-> Tensor(<<input_ids.shape[1], HiddenSize>>,
                       [n \in 1..(input_ids.shape[1] * HiddenSize) |->
                           SentenceVector(Row2(input_ids, (n - 1) \div HiddenSize))
                               [((n - 1) % HiddenSize) + 1]])]

\* self.classifier(x): one row of label_num logits per row of x
classifier(x) ==
    [fn |-> "classifier", x |-> x,
     result |-> Tensor(<<x.shape[1], LabelNum>>,
                       [n \in 1..(x.shape[1] * LabelNum) |->
                           [classifier_of |-> Row2(x, (n - 1) \div LabelNum),
                            label |-> (n - 1) % LabelNum]])]

\* F.cross_entropy(logits, labels): the n-th call of a forward returns the n-th constant
cross_entropy(tr, logits, labels) ==
    [fn |-> "cross_entropy", logits |-> logits, labels |-> labels,
     result |-> cross_entropy_returns[Calls(tr, "cross_entropy") + 1]]

\* F.softmax(logits, dim=-1)
softmax(logits, dim) ==
    [fn |-> "softmax", logits |-> logits, dim |-> dim,
     result |-> [softmax_of |-> logits, dim |-> dim]]

\* self.r2d2.embedding(ids): one vector per id
embedding(ids) ==
    [fn |-> "embedding", ids |-> ids,
     result |-> Tensor(<<ids.shape[1], HiddenSize>>,
                       [n \in 1..(ids.shape[1] * HiddenSize) |->
                           3000 + ids.data[((n - 1) \div HiddenSize) + 1] * HiddenSize
                                + ((n - 1) % HiddenSize)])]

\* self.r2d2.tree_decoder(x): (P, S, D) -> (P, S, D), each sequence decoded on its own
tree_decoder(x) ==
    [fn |-> "tree_decoder", x |-> x,
     result |-> Tensor(x.shape,
                       [n \in 1..Numel(x.shape) |->
                           LET p == (n - 1) \div (x.shape[2] * x.shape[3])
                           IN [decoder_of |-> [j \in 1..x.shape[2] |-> Row3(x, p, j - 1)],
                               pos |-> ((n - 1) % (x.shape[2] * x.shape[3])) \div x.shape[3],
                               k |-> (n - 1) % x.shape[3]]])]

(* ------------------- segments shared by the forwards ------------------- *)
ConfigError == "Force encoding is not supported when disable_parser == True"
ShapeError == "shape is invalid for input size"

Returns(tr, value) == [trace |-> tr, raised |-> None, returned |-> Some(value)]
Raises(tr, message) == [trace |-> tr, raised |-> Some(message), returned |-> None]

\* Slip: the parser is asked for guidance even when it is disabled
ParserGuidance_Always(input_ids, attention_mask, atom_spans) ==
    <<TopdownParser(input_ids, attention_mask, atom_spans, None, None)>>

\* if not self.disable_parser: s_indices = self.parser(input_ids, attention_mask, atom_spans=...)
\* else: s_indices = None.  The calls made (none or one); SIndices reads the value off them.
ParserGuidance(input_ids, attention_mask, atom_spans) ==
    IF ~disable_parser
    THEN <<TopdownParser(input_ids, attention_mask, atom_spans, None, None)>>
    ELSE << >>

SIndices(guidance) == IF guidance = << >> THEN None ELSE Some(guidance[1].result)

\* Slip: root_cache_ids.insert(0, ...) instead of append
RECURSIVE RootCacheIds_Reversed(_)
RootCacheIds_Reversed(tables) ==
    IF tables = << >> THEN << >>
    ELSE RootCacheIds_Reversed(Tail(tables)) \o <<Head(tables).root.best_node.cache_id>>

\* root_cache_ids = []; for t in tables: root_cache_ids.append(t.root.best_node.cache_id)
RECURSIVE RootCacheIds(_)
RootCacheIds(tables) ==
    IF tables = << >> THEN << >>
    ELSE <<Head(tables).root.best_node.cache_id>> \o RootCacheIds(Tail(tables))

\* tables = results['tables']; tensor_cache = results['tensor_cache']; ...
\* tensor_cache.gather(root_cache_ids, [CacheSlots.E_IJ]); e_ij is element [0] of the result
PoolGather(results) ==
    TensorCacheGather(results.tensor_cache, RootCacheIds(results.tables), <<"E_IJ">>)

\* Slip: split_masks and split_points exchanged
ParserKL_Swapped(input_ids, attention_mask, sampled_trees) ==
    TopdownParser(input_ids, attention_mask, None,
                  Some(sampled_trees.split_points), Some(sampled_trees.split_masks))

\* self.parser(input_ids, attention_mask, split_masks=sampled_trees['split_masks'],
\*             split_points=sampled_trees['split_points'])
ParserKL(input_ids, attention_mask, sampled_trees) ==
    TopdownParser(input_ids, attention_mask, None,
                  Some(sampled_trees.split_masks), Some(sampled_trees.split_points))

\* Slip: the force-encoding loss is left out of the sum
TrainingLossSum_NoForce(force_encoding_loss, loss, kl_loss, bilm_loss) ==
    loss + kl_loss + bilm_loss

\* return force_encoding_loss + loss + kl_loss + bilm_loss
TrainingLossSum(force_encoding_loss, loss, kl_loss, bilm_loss) ==
    force_encoding_loss + loss + kl_loss + bilm_loss

\* Slip: the guard is missing
ForceEncodingRejected_Never == FALSE

\* if self.disable_parser: raise Exception(...)   (inference, force_encoding branch)
ForceEncodingRejected == disable_parser

(* ----------------------- FastR2D2Classification ------------------------ *)
Classification_forward(input_ids, attention_mask, num_samples, atom_spans, labels, force_encoding) ==
    IF labels # None
    THEN \* training
         LET guidance == ParserGuidance(input_ids, attention_mask, atom_spans)
             s_indices == SIndices(guidance)
             c_r2d2 == R2D2Cuda(input_ids, attention_mask, s_indices, Some(num_samples),
                                TRUE, TRUE, None)
             results == c_r2d2.result
             c_gather == PoolGather(results)
             e_ij == c_gather.result[1]
             c_cls == classifier(e_ij)
             t1 == guidance \o <<c_r2d2, c_gather, c_cls>>
             c_ce == cross_entropy(t1, c_cls.result, labels[1])
             loss == c_ce.result
             bilm_loss == results.loss
             kl == IF ~disable_parser
                   THEN <<ParserKL(input_ids, attention_mask, results.sampled_trees)>>
                   ELSE << >>
             kl_loss == IF ~disable_parser THEN kl[1].result ELSE 0
             \* force encoding
             c_fe == force_encode("self.parser", "self.r2d2", input_ids, attention_mask,
                                  atom_spans)
             c_cls2 == classifier(c_fe.result)
             t2 == t1 \o <<c_ce>> \o kl \o <<c_fe, c_cls2>>
             c_ce2 == cross_entropy(t2, c_cls2.result, labels[1])
             force_encoding_loss == c_ce2.result
         IN Returns(t2 \o <<c_ce2>>,
                    TrainingLossSum(force_encoding_loss, loss, kl_loss, bilm_loss))
    ELSE \* two modes for inference
         IF ~force_encoding
         THEN LET guidance == ParserGuidance(input_ids, attention_mask, atom_spans)
                  s_indices == SIndices(guidance)
                  c_r2d2 == R2D2Cuda(input_ids, attention_mask, s_indices, None,
                                     TRUE, TRUE, Some(FALSE))
                  c_gather == PoolGather(c_r2d2.result)
                  e_ij == c_gather.result[1]
                  c_cls == classifier(e_ij)
                  c_sm == softmax(c_cls.result, -1)
              IN Returns(guidance \o <<c_r2d2, c_gather, c_cls, c_sm>>, c_sm.result)
         ELSE IF ForceEncodingRejected
              THEN Raises(<< >>, ConfigError)
              ELSE LET c_fe == force_encode("self.parser", "self.r2d2", input_ids,
                                            attention_mask, atom_spans)
                       c_cls == classifier(c_fe.result)
                       c_sm == softmax(c_cls.result, -1)
                   IN Returns(<<c_fe, c_cls, c_sm>>, c_sm.result)

(* ------------------------ FastR2D2CrossSentence ------------------------ *)
\* Slip: outputs[:, 1, :] is classified instead of the task-marker position
pairwise_encoding_Position1(e_ij) ==
    LET sz == e_ij.shape[1]
        mask_ids == Filled(sz, task_id)
        c_emb == embedding(mask_ids)
        mask_embedding == c_emb.result
        input_embedding == Cat1(Unsqueeze1(mask_embedding), e_ij)
        c_dec == tree_decoder(input_embedding)
        outputs == c_dec.result
        mask_hidden == Select1(outputs, 1)
    IN <<[fn |-> "pairwise_encoding", e_ij |-> e_ij], c_emb, c_dec, classifier(mask_hidden)>>

\* pairwise_encoding(e_ij), e_ij.shape: [batch_size, 2, dim].  Its own entry (with the
\* argument it was handed) and the calls it makes, in order; its value is the result of the
\* last one.
pairwise_encoding(e_ij) ==
    LET sz == e_ij.shape[1]
        mask_ids == Filled(sz, task_id)
        c_emb == embedding(mask_ids)
        mask_embedding == c_emb.result
        input_embedding == Cat1(Unsqueeze1(mask_embedding), e_ij)
        c_dec == tree_decoder(input_embedding)
        outputs == c_dec.result
        mask_hidden == Select1(outputs, 0)
    IN <<[fn |-> "pairwise_encoding", e_ij |-> e_ij], c_emb, c_dec, classifier(mask_hidden)>>

\* Slip: x.transpose(0, 1).reshape(-1, x.shape[-1]), all first sentences before all second
Flatten_PairMajor(x) ==
    LET B == x.shape[1]
        L == x.shape[Len(x.shape)]
    IN Tensor(<<Numel(x.shape) \div L, L>>,
              [n \in 1..Numel(x.shape) |->
                  LET r == (n - 1) \div L
                  IN At3(x, r % B, r \div B, (n - 1) % L)])

\* x.view(-1, x.shape[-1])
Flatten(x) ==
    View(x, <<Numel(x.shape) \div x.shape[Len(x.shape)], x.shape[Len(x.shape)]>>)

\* the shape passed to e_ij.view(e_ij.shape[0] // 2, 2, e_ij.shape[-1])
PairShape(e_ij) == <<e_ij.shape[1] \div 2, 2, e_ij.shape[Len(e_ij.shape)]>>

CrossSentence_forward(input_ids3, attention_mask3, num_samples, atom_spans, labels, force_encoding) ==
    LET input_ids == Flatten(input_ids3)
        attention_mask == Flatten(attention_mask3)
    IN
    IF labels # None
    THEN \* training
         LET guidance == ParserGuidance(input_ids, attention_mask, atom_spans)
             s_indices == SIndices(guidance)
             c_r2d2 == R2D2Cuda(input_ids, attention_mask, s_indices, Some(num_samples),
                                TRUE, TRUE, Some(TRUE))
             results == c_r2d2.result
             sampled_trees == results.sampled_trees
             c_gather == PoolGather(results)
             e_ij == c_gather.result[1]
             t1 == guidance \o <<c_r2d2, c_gather>>
         IN IF ~ViewOk(e_ij, PairShape(e_ij)) THEN Raises(t1, ShapeError)
            ELSE
            LET pw == pairwise_encoding(View(e_ij, PairShape(e_ij)))
                logits == pw[Len(pw)].result
                t2 == t1 \o pw
                c_ce == cross_entropy(t2, logits, labels[1])
                loss == c_ce.result
                bilm_loss == results.loss
                c_kl == ParserKL(input_ids, attention_mask, sampled_trees)
                kl_loss == c_kl.result
                \* force encoding
                c_fe == force_encode("self.parser", "self.r2d2", input_ids, attention_mask,
                                     atom_spans)
                f_ij == c_fe.result
                t3 == t2 \o <<c_ce, c_kl, c_fe>>
            IN IF ~ViewOk(f_ij, PairShape(f_ij)) THEN Raises(t3, ShapeError)
               ELSE
               LET pw2 == pairwise_encoding(View(f_ij, PairShape(f_ij)))
                   logits2 == pw2[Len(pw2)].result
                   t4 == t3 \o pw2
                   c_ce2 == cross_entropy(t4, logits2, labels[1])
                   force_encoding_loss == c_ce2.result
               IN Returns(t4 \o <<c_ce2>>,
                          TrainingLossSum(force_encoding_loss, loss, kl_loss, bilm_loss))
    ELSE \* two modes for inference
         IF ~force_encoding
         THEN LET guidance == ParserGuidance(input_ids, attention_mask, atom_spans)
                  s_indices == SIndices(guidance)
                  c_r2d2 == R2D2Cuda(input_ids, attention_mask, s_indices, None,
                                     TRUE, TRUE, Some(FALSE))
                  c_gather == PoolGather(c_r2d2.result)
                  e_ij == c_gather.result[1]
                  t1 == guidance \o <<c_r2d2, c_gather>>
              IN IF ~ViewOk(e_ij, PairShape(e_ij)) THEN Raises(t1, ShapeError)
                 ELSE LET pw == pairwise_encoding(View(e_ij, PairShape(e_ij)))
                          c_sm == softmax(pw[Len(pw)].result, -1)
                      IN Returns(t1 \o pw \o <<c_sm>>, c_sm.result)
         ELSE IF ForceEncodingRejected
              THEN Raises(<< >>, ConfigError)
              ELSE LET c_fe == force_encode("self.parser", "self.r2d2", input_ids,
                                            attention_mask, atom_spans)
                       f_ij == c_fe.result
                   IN IF ~ViewOk(f_ij, PairShape(f_ij)) THEN Raises(<<c_fe>>, ShapeError)
                      ELSE LET pw == pairwise_encoding(View(f_ij, PairShape(f_ij)))
                               c_sm == softmax(pw[Len(pw)].result, -1)
                           IN Returns(<<c_fe>> \o pw \o <<c_sm>>, c_sm.result)

(* ------------------------------ the calls ------------------------------ *)
\* Arguments of a call: a batch of B examples (pairs) of MaxLen tokens each; every token of
\* the batch is distinct, so a row that moved is seen to have moved.
Tokens(shape) == Tensor(shape, [n \in 1..Numel(shape) |-> n])
Ones(shape) == Tensor(shape, [n \in 1..Numel(shape) |-> 1])
Labels(B) == Tensor(<<B>>, [n \in 1..B |-> (n - 1) % LabelNum])
AtomSpans == Some(<<<<0, 1>>>>)

Batches == 0..MaxBatch
Lens == {MaxLen}
Samples == 0..MaxSamples

CallArgs(shape, B, num_samples, train, force_encoding) ==
    [input_ids |-> Tokens(shape), attention_mask |-> Ones(shape),
     num_samples |-> num_samples, atom_spans |-> AtomSpans,
     labels |-> IF train THEN Some(Labels(B)) ELSE None,
     force_encoding |-> force_encoding]

Finish(a, out) ==
    /\ args' = Some(a)
    /\ trace' = out.trace
    /\ raised' = out.raised
    /\ returned' = out.returned
    /\ UNCHANGED <<class, disable_parser, task_id, r2d2_ids, r2d2_loss, parser_kl,
                   cross_entropy_returns>>

ClassificationForward ==
    /\ class = "FastR2D2Classification"
    /\ \E B \in Batches, L \in Lens, num_samples \in Samples,
          train \in BOOLEAN, force_encoding \in BOOLEAN :
          LET a == CallArgs(<<B, L>>, B, num_samples, train, force_encoding)
          IN Finish(a, Classification_forward(a.input_ids, a.attention_mask, a.num_samples,
                                              a.atom_spans, a.labels, a.force_encoding))

CrossSentenceForward ==
    /\ class = "FastR2D2CrossSentence"
    /\ \E B \in Batches, L \in Lens, num_samples \in Samples,
          train \in BOOLEAN, force_encoding \in BOOLEAN :
          LET a == CallArgs(<<B, 2, L>>, B, num_samples, train, force_encoding)
          IN Finish(a, CrossSentence_forward(a.input_ids, a.attention_mask, a.num_samples,
                                             a.atom_spans, a.labels, a.force_encoding))

\* __init__: the class, disable_parser and config.pairwise_task_id are fixed at construction;
\* so is what the collaborators answer.
Constructed ==
    /\ class \in {"FastR2D2Classification", "FastR2D2CrossSentence"}
    /\ disable_parser \in BOOLEAN
    /\ task_id \in 1..MaxTaskId
    /\ class = "FastR2D2Classification" => task_id = 1
    /\ args = None
    /\ trace = << >>
    /\ raised = None
    /\ returned = None

\* The cache ids an encoder hands out along a batch: constant, ascending or wrapping around,
\* so that ids repeat and come out of order
IdPatterns ==
    {[r \in 1..MaxRows |-> (first + (r - 1) * step) % (MaxCacheId + 1)] :
        first \in CacheIds, step \in CacheIds}

\* Encoder tables vary, the loss constants are fixed and pairwise distinct
Init ==
    /\ Constructed
    /\ r2d2_ids \in IdPatterns
    /\ r2d2_loss = 4
    /\ parser_kl = 8
    /\ cross_entropy_returns = <<1, 2>>

\* The loss constants vary, table r has cache id (r - 1) mod the number of ids
InitLoss ==
    /\ Constructed
    /\ r2d2_ids = [r \in 1..MaxRows |-> (r - 1) % (MaxCacheId + 1)]
    /\ r2d2_loss \in Loss
    /\ parser_kl \in Loss
    /\ cross_entropy_returns \in [1..2 -> Loss]

Next == ClassificationForward \/ CrossSentenceForward

Spec == Init /\ [][Next]_vars
SpecLoss == InitLoss /\ [][Next]_vars

(* ------------------------------ properties ----------------------------- *)
Called == args # None
A == args[1]
Training == Called /\ A.labels # None
Inference == Called /\ A.labels = None
ParsedInference == Inference /\ ~A.force_encoding
ForceInference == Inference /\ A.force_encoding
CrossSentence == class = "FastR2D2CrossSentence"

Idx(fn) == {i \in DOMAIN trace : trace[i].fn = fn}
Count(fn) == Cardinality(Idx(fn))
First(fn) == CHOOSE i \in Idx(fn) : \A j \in Idx(fn) : i <= j
Last(fn) == CHOOSE i \in Idx(fn) : \A j \in Idx(fn) : j <= i

\* The pooled tensor a pairwise_encoding entry at position i was fed from
PoolIdx(i) == CHOOSE j \in 1..(i - 1) :
                 /\ trace[j].fn \in {"gather", "force_encode"}
                 /\ \A m \in (j + 1)..(i - 1) : trace[m].fn \notin {"gather", "force_encode"}
Pooled(j) == IF trace[j].fn = "gather" THEN trace[j].result[1] ELSE trace[j].result

\* C1: inference with force_encoding=True on a model built with disable_parser=True raises
\* the configuration error and returns no probabilities, in both classes.
C1_ForceEncodingRejected ==
    (ForceInference /\ disable_parser) =>
        /\ raised = Some(ConfigError)
        /\ returned = None
        /\ Count("softmax") = 0

C1_Witness ==
    /\ ForceInference /\ disable_parser /\ CrossSentence
    /\ A.input_ids.shape[1] = MaxBatch

\* C2: in training with disable_parser=True the encoder gets no merge guidance, the parser is
\* not invoked for a KL loss, and the KL term of the returned sum is exactly 0 (both classes).
C2_DisabledParserNoKL ==
    (Training /\ disable_parser) =>
        /\ Count("r2d2") = 1
        /\ trace[First("r2d2")].merge_trajectories = None
        /\ Count("parser") = 0
        /\ Count("cross_entropy") = 2
        /\ returned = Some(trace[First("cross_entropy")].result
                           + trace[First("r2d2")].result.loss
                           + 0
                           + trace[Last("cross_entropy")].result)

\* C3: a training forward that returns, returns exactly the unweighted sum of the
\* parsed-path cross-entropy, the LM loss of its encoder call, the parser KL loss (0 when
\* the parser is disabled) and the force-encoding cross-entropy.
C3_LossIsSumOfFourTerms ==
    (Training /\ returned # None) =>
        /\ Count("r2d2") = 1
        /\ Count("cross_entropy") = 2
        /\ returned = Some(trace[First("cross_entropy")].result
                           + trace[First("r2d2")].result.loss
                           + (IF disable_parser THEN 0 ELSE parser_kl)
                           + trace[Last("cross_entropy")].result)

\* C4: on the training path and the parsed-inference path of both classes the forward
\* issues exactly one gather, on the cache its encoder call returned, for slot E_IJ only,
\* with the root best-node cache ids in table order; pooled row i is the E_IJ vector of
\* table i's id, and that tensor is what the next step consumes.
C4_PoolingPreservesTableOrder ==
    (Training \/ ParsedInference) =>
        /\ Count("gather") = 1
        /\ Count("r2d2") = 1
        /\ First("r2d2") < First("gather")
        /\ LET g == trace[First("gather")]
               results == trace[First("r2d2")].result
               tables == results.tables
               N == Len(tables)
               next == trace[First("gather") + 1]
           IN /\ g.cache = results.tensor_cache
              /\ g.slots = <<"E_IJ">>
              /\ g.ids = [i \in 1..N |-> tables[i].root.best_node.cache_id]
              /\ Len(g.result) = 1
              /\ g.result[1].shape = <<N, HiddenSize>>
              /\ \A i \in 1..N :
                    Row2(g.result[1], i - 1)
                        = results.tensor_cache[tables[i].root.best_node.cache_id]["E_IJ"]
              /\ IF CrossSentence
                 THEN next.fn = "pairwise_encoding" /\ next.e_ij.data = g.result[1].data
                 ELSE next.fn = "classifier" /\ next.x = g.result[1]

C4_Witness ==
    /\ Training /\ ~CrossSentence /\ returned # None
    /\ Count("gather") = 1
    /\ Len(trace[First("gather")].ids) = MaxBatch
    /\ trace[First("gather")].ids[1] > trace[First("gather")].ids[2]

\* C5: in the cross-sentence class every collaborator sees the (B,2,L) input flattened
\* row-major to (2B,L), row 2b+k being input[b,k]; and every pair handed to the pairwise
\* combiner is (pooled row 2b, pooled row 2b+1), i.e. the vectors of the two sentences of
\* example b in their order, on the training, parsed-inference and force-encoding paths.
C5_FlattenReshapeRoundTrip ==
    (Called /\ CrossSentence) =>
        LET X == A.input_ids
            B == X.shape[1]
            L == X.shape[3]
        IN /\ \A i \in DOMAIN trace :
                 trace[i].fn \in {"parser", "r2d2", "force_encode"} =>
                     /\ trace[i].input_ids.shape = <<2 * B, L>>
                     /\ trace[i].attention_mask.shape = <<2 * B, L>>
                     /\ \A b \in 0..(B - 1), k \in 0..1 :
                           /\ Row2(trace[i].input_ids, 2 * b + k) = Row3(X, b, k)
                           /\ Row2(trace[i].attention_mask, 2 * b + k)
                                  = Row3(A.attention_mask, b, k)
           /\ \A i \in Idx("pairwise_encoding") :
                 LET e == trace[i].e_ij
                     j == PoolIdx(i)
                 IN /\ e.shape = <<B, 2, HiddenSize>>
                    /\ \A b \in 0..(B - 1), k \in 0..1 :
                          /\ Row3(e, b, k) = Row2(Pooled(j), 2 * b + k)
                          /\ IF trace[j].fn = "force_encode"
                             THEN Row3(e, b, k) = SentenceVector(Row3(X, b, k))
                             ELSE Row3(e, b, k) =
                                      trace[j].cache[trace[First("r2d2")].result
                                          .tables[2 * b + k + 1].root.best_node.cache_id]["E_IJ"]
           /\ raised = None =>
                 Count("pairwise_encoding") = IF A.labels # None THEN 2 ELSE 1

C5_Witness ==
    /\ Training /\ CrossSentence /\ returned # None
    /\ A.input_ids.shape = <<MaxBatch, 2, MaxLen>>
    /\ Count("pairwise_encoding") = 2
    /\ r2d2_ids[1] # r2d2_ids[2]

\* C6: in inference the two pooling paths exclude each other.  Without force_encoding:
\* one encoder call with no sample_trees and lm_loss=False, one parser call if the parser
\* is enabled and none if disabled, no force-encoder call.  With force_encoding and the
\* parser enabled: one force-encoder call, no parser call, no encoder call, no gather.
\* Either way the classifier runs exactly once, after pooling.
C6_InferencePathsExclusive ==
    /\ ParsedInference =>
          /\ Count("r2d2") = 1
          /\ trace[First("r2d2")].sample_trees = None
          /\ trace[First("r2d2")].lm_loss = Some(FALSE)
          /\ Count("parser") = IF disable_parser THEN 0 ELSE 1
          /\ Count("force_encode") = 0
          /\ Count("classifier") = 1
          /\ First("gather") < First("classifier")
    /\ (ForceInference /\ ~disable_parser) =>
          /\ Count("force_encode") = 1
          /\ Count("parser") = 0
          /\ Count("r2d2") = 0
          /\ Count("gather") = 0
          /\ Count("classifier") = 1
          /\ First("force_encode") < First("classifier")

C6_Witness ==
    /\ ParsedInference /\ disable_parser /\ CrossSentence
    /\ returned # None
    /\ A.input_ids.shape[1] = MaxBatch

\* C7: pairwise_encoding builds for each pair p the triple [task-marker embedding,
\* e_ij[p,0], e_ij[p,1]], the marker looked up with the configured task id for every pair,
\* runs the tree decoder once over the triples, and feeds the classifier the decoder output
\* at position 0 of each triple: one logit row per pair.
C7_PairwiseCombiner ==
    \A i \in Idx("pairwise_encoding") :
        LET e == trace[i].e_ij
            P == e.shape[1]
            emb == trace[i + 1]
            dec == trace[i + 2]
            cl == trace[i + 3]
        IN /\ Len(trace) >= i + 4
           /\ emb.fn = "embedding"
           /\ emb.ids = Filled(P, task_id)
           /\ dec.fn = "tree_decoder"
           /\ dec.x.shape = <<P, 3, HiddenSize>>
           /\ \A p \in 0..(P - 1) :
                 /\ Row3(dec.x, p, 0) = Row2(emb.result, p)
                 /\ Row3(dec.x, p, 1) = Row3(e, p, 0)
                 /\ Row3(dec.x, p, 2) = Row3(e, p, 1)
           /\ cl.fn = "classifier"
           /\ cl.x.shape = <<P, HiddenSize>>
           /\ \A p \in 0..(P - 1) : Row2(cl.x, p) = Row3(dec.result, p, 0)
           /\ cl.result.shape = <<P, LabelNum>>
           /\ trace[i + 4].fn \in {"cross_entropy", "softmax"}
           /\ trace[i + 4].logits = cl.result

C7_Witness ==
    /\ ForceInference /\ CrossSentence /\ returned # None
    /\ Count("pairwise_encoding") = 1
    /\ trace[First("pairwise_encoding")].e_ij.shape[1] = MaxBatch
    /\ task_id = MaxTaskId

C9_TrainingRequestsSampling ==
    (Training /\ (CrossSentence \/ ~disable_parser)) =>
        /\ Count("r2d2") = 1
        /\ trace[First("r2d2")].sample_trees # None
        /\ trace[First("r2d2")].sample_trees[1] > 0

====
